---------------------------- MODULE Spec2Model ----------------------------
(***************************************************************************)
(* A model of adocker's streaming-decode pipeline                          *)
(* (adocker/utils/chunked_stream.py), of its lazy result sequence          *)
(* (adocker/utils/streamed_response.py) and of its exit-action stack       *)
(* (adocker/utils/contextlib.py).                                          *)
(*                                                                         *)
(* Text is a sequence of one-character strings; bytes are one-character    *)
(* strings too, except the two bytes of the one multi-byte character of    *)
(* the model, which are "xC3" and "xA9" (UTF-8 for U+00E9).                *)
(***************************************************************************)
EXTENDS Integers, Sequences, FiniteSets, TLC

(***************************************************************************)
(* Bounds of the model.                                                    *)
(***************************************************************************)
\* at most this many documents are written to one transport
MaxDocs == 2
\* at most this many operations are called by one task on a StreamableResponse
MaxCalls == 2
\* as_list(n) is called with n up to this, or with n unspecified
MaxN == 2
\* the iterations of as_list's loop that are followed
MaxSpin == 3
\* at most this many exit actions are registered on the stack in one behaviour
MaxActions == 2
\* at most this many unwinds (__aexit__ or close) of the stack in one behaviour
MaxUnwinds == 2
\* the most results a consumer collects from one stream
MaxItems == 5

None == [t |-> "None"]

(***************************************************************************)
(* Sequence helpers.                                                       *)
(***************************************************************************)
Last(s) == s[Len(s)]

\* s[i:] of Python, for a 1-based position i
From(s, i) == SubSeq(s, i, Len(s))

RECURSIVE Concat(_)
Concat(ss) == IF ss = <<>> THEN <<>> ELSE Head(ss) \o Concat(Tail(ss))

RECURSIVE SeqsUpTo(_, _)
SeqsUpTo(S, n) ==
    IF n = 0 THEN {<<>>}
    ELSE LET shorter == SeqsUpTo(S, n - 1)
         IN  shorter \cup {Append(s, x) : s \in {t \in shorter : Len(t) = n - 1}, x \in S}

(***************************************************************************)
(* bytes.decode(chunk, encoding='utf-8', errors='replace') on the bytes of *)
(* the model: the lead byte "xC3" followed by the continuation byte "xA9"  *)
(* is one character; a lead byte with no continuation after it in the      *)
(* chunk, and a continuation byte with no lead byte before it, are each    *)
(* replaced by U+FFFD, written "?".                                        *)
(***************************************************************************)
RECURSIVE BytesDecode(_)
BytesDecode(b) ==
    IF b = <<>> THEN <<>>
    ELSE IF Head(b) = "xC3"
         THEN IF Len(b) >= 2 /\ b[2] = "xA9"
              THEN <<"e'">> \o BytesDecode(From(b, 3))
              ELSE <<"?">> \o BytesDecode(Tail(b))
         ELSE IF Head(b) = "xA9"
              THEN <<"?">> \o BytesDecode(Tail(b))
              ELSE <<Head(b)>> \o BytesDecode(Tail(b))

(***************************************************************************)
(* json.JSONDecoder of the standard library, on the JSON subset of the     *)
(* model: objects with string keys, strings without escapes, and           *)
(* non-negative integers written with the digit 1.  A scan returns         *)
(* [ok, val, end]: end is the position after the value (1-based).          *)
(***************************************************************************)
WHITESPACE == {" "}
Digits == {"1"}
Fail == [ok |-> FALSE]
Ok(v, e) == [ok |-> TRUE, val |-> v, end |-> e]

At(s, i) == IF i >= 1 /\ i <= Len(s) THEN s[i] ELSE ""

\* json.decoder.WHITESPACE.match(s, i).end()
RECURSIVE SkipWs(_, _)
SkipWs(s, i) == IF At(s, i) \in WHITESPACE THEN SkipWs(s, i + 1) ELSE i

\* str.strip()
RECURSIVE StripLeft(_)
StripLeft(s) ==
    IF s # <<>> /\ Head(s) \in WHITESPACE THEN StripLeft(Tail(s)) ELSE s
RECURSIVE StripRight(_)
StripRight(s) ==
    IF s # <<>> /\ Last(s) \in WHITESPACE
    THEN StripRight(SubSeq(s, 1, Len(s) - 1)) ELSE s
Strip(s) == StripRight(StripLeft(s))

\* scanstring(s, i): i is the position after the opening quote
RECURSIVE StringEnd(_, _)
StringEnd(s, i) ==
    IF i > Len(s) THEN 0
    ELSE IF s[i] = "\"" THEN i ELSE StringEnd(s, i + 1)
ScanString(s, i) ==
    LET j == StringEnd(s, i)
    IN  IF j = 0 THEN Fail
        ELSE Ok([t |-> "str", v |-> SubSeq(s, i, j - 1)], j + 1)

RECURSIVE NumberEnd(_, _)
NumberEnd(s, i) == IF At(s, i) \in Digits THEN NumberEnd(s, i + 1) ELSE i
ScanNumber(s, i) ==
    LET j == NumberEnd(s, i)
    IN  Ok([t |-> "num", v |-> SubSeq(s, i, j - 1)], j)

\* dict(pairs): a later pair with the same key replaces the earlier one
DictSet(d, k, v) == {p \in d : p[1] # k} \cup {<<k, v>>}

RECURSIVE ScanOnce(_, _)
RECURSIVE ScanPairs(_, _, _)

\* JSONObject's loop: i is the position after the opening quote of a key
ScanPairs(s, i, d) ==
    LET key == ScanString(s, i)
    IN  IF ~key.ok THEN Fail
        ELSE LET c == SkipWs(s, key.end)
             IN  IF At(s, c) # ":" THEN Fail
                 ELSE LET value == ScanOnce(s, SkipWs(s, c + 1))
                      IN  IF ~value.ok THEN Fail
                          ELSE LET e  == SkipWs(s, value.end)
                                   d2 == DictSet(d, key.val.v, value.val)
                               IN  IF At(s, e) = "}"
                                   THEN Ok([t |-> "obj", v |-> d2], e + 1)
                                   ELSE IF At(s, e) # "," THEN Fail
                                   ELSE LET q == SkipWs(s, e + 1)
                                        IN  IF At(s, q) # "\"" THEN Fail
                                            ELSE ScanPairs(s, q + 1, d2)

\* JSONObject: i is the position after the opening brace
ScanObject(s, i) ==
    LET j == SkipWs(s, i)
    IN  IF At(s, j) = "}" THEN Ok([t |-> "obj", v |-> {}], j + 1)
        ELSE IF At(s, j) # "\"" THEN Fail
        ELSE ScanPairs(s, j + 1, {})

\* scan_once(s, i); StopIteration and JSONDecodeError both end as ValueError
ScanOnce(s, i) ==
    IF At(s, i) = "\"" THEN ScanString(s, i + 1)
    ELSE IF At(s, i) = "{" THEN ScanObject(s, i + 1)
    ELSE IF At(s, i) \in Digits THEN ScanNumber(s, i)
    ELSE Fail

\* JSONDecoder.raw_decode(s)
RawDecode(s) == ScanOnce(s, 1)

\* JSONDecoder.decode(s): leading whitespace skipped, no extra data allowed
JsonDecode(s) ==
    LET r == ScanOnce(s, SkipWs(s, 1))
    IN  IF ~r.ok THEN Fail
        ELSE IF SkipWs(s, r.end) # Len(s) + 1 THEN Fail
        ELSE r

(***************************************************************************)
(* JsonStream.splitter: None, or [obj, rest].                              *)
(***************************************************************************)
JsonSplitter(buf) ==
    LET stripped == Strip(buf)
        r        == RawDecode(stripped)
    IN  IF ~r.ok THEN None
        ELSE [t |-> "split", obj |-> r.val, rest |-> From(stripped, SkipWs(stripped, r.end))]

(***************************************************************************)
(* The inputs of the streaming model: the documents written to the         *)
(* transport, as bytes, and what follows the last document.                *)
(***************************************************************************)
DocEmpty  == <<"{", "}">>
DocNum    == <<"{", "\"", "a", "\"", ":", "1", "}">>
DocSpace  == <<"{", "\"", "a", "\"", ":", "\"", " ", "\"", "}">>
DocWide   == <<"{", "\"", "xC3", "xA9", "\"", ":", "1", "}">>
DocSet    == {DocEmpty, DocNum, DocSpace, DocWide}

TailNone      == <<>>
TailUnclosed  == <<"{", "\"", "a", "\"", ":">>
TailBlank     == <<" ">>
TailSet       == {TailNone, TailUnclosed, TailBlank}

\* the decoded object a document stands for
DocValue(d) == JsonDecode(BytesDecode(d)).val

Consumers == {"c1"}

\* the tasks that may iterate one stream object between them
Sharers == {"c1", "c2"}

\* the texts written to the transport of a SplitStream, and what may follow
LineA     == <<"a", "\r", "\n">>
LineEmpty == <<"\r", "\n">>
LineSet   == {LineA, LineEmpty}
TailText  == <<"b">>

VARIABLES
    docsIn,         \* the documents written to the transport, in order
    tailIn,         \* the bytes written after the last document
    wire,           \* response.content: the bytes the transport has not delivered yet
    closeCalls,     \* the number of calls of response.close()
    buffer,         \* SplitStream._buffer
    pc,             \* where each consumer's __anext__ call stands
    end_of_stream,  \* SplitStream.__anext__'s local end_of_stream, per call
    loaded,         \* the value of self._buffer read before the await of line 139
    chunk,          \* ChunkedBytesStream.__anext__'s local buffer, per call
    out,            \* what each consumer's __anext__ calls have returned or raised
    framing,        \* the class of the stream object: "json" (JsonStream) or
                    \* "split" (SplitStream)
    eof_reads,      \* per call: the reads that returned (b'', False) at the
                    \* transport's end
    received,       \* the text ChunkedStream.__anext__ has returned so far
    decoder_calls   \* the arguments self.decoder has been called with

streamVars == <<docsIn, tailIn, wire, closeCalls, buffer, pc, end_of_stream,
                loaded, chunk, out, framing, eof_reads, received, decoder_calls>>
Item(v) == [t |-> "item", v |-> v]
StopAsyncIteration == [t |-> "stop"]
Raised(kind, cause) == [t |-> "error", kind |-> kind, cause |-> cause]

InitStream ==
    /\ framing \in {"json", "split"}
    /\ docsIn \in SeqsUpTo(IF framing = "json" THEN DocSet ELSE LineSet, MaxDocs)
    /\ tailIn \in (IF framing = "json" THEN TailSet ELSE {TailNone, TailText})
    /\ wire = Concat(docsIn) \o tailIn
    /\ closeCalls = 0
    /\ buffer = <<>>
    /\ pc = [c \in Sharers |-> "idle"]
    /\ end_of_stream = [c \in Sharers |-> FALSE]
    /\ loaded = [c \in Sharers |-> <<>>]
    /\ chunk = [c \in Sharers |-> <<>>]
    /\ out = [c \in Sharers |-> <<>>]
    /\ eof_reads = [c \in Sharers |-> 0]
    /\ received = <<>>
    /\ decoder_calls = <<>>

\* SplitStream.splitter (lines 107-110): None, or [obj, rest]
SplitSplitter(buf) ==
    IF buf # <<>>
    THEN [t    |-> "split",
          obj  |-> SubSeq(buf, 1, Len(buf) - 2),                          \* buffer[:-2]
          rest |-> SubSeq(buf, IF Len(buf) > 2 THEN Len(buf) - 1 ELSE 1,
                          Len(buf))]                                      \* buffer[-2:]
    ELSE None

\* SplitStream.decoder (line 120)
SplitDecoder(buf) == buf

\* self.splitter(self._buffer) of line 125, by the class of self
Splitter(buf) ==
    IF framing = "json" THEN JsonSplitter(buf) ELSE SplitSplitter(buf)

\* a tail decoded with no try around it: the parser's error as it is
TailDecodeUnwrapped(tmp_buf) ==
    LET r == JsonDecode(tmp_buf)
    IN  IF r.ok THEN Item(r.val) ELSE Raised("JSONDecodeError", None)

\* JsonStream.decoder, called by line 134; line 136 wraps what it raises
TailDecode(tmp_buf) ==
    LET r == JsonDecode(tmp_buf)
    IN  IF r.ok THEN Item(r.val)
        ELSE Raised("ChunkedStreamingError", "JSONDecodeError")

\* __anext__ returns or raises: an item leaves the consumer free to call again
Deliver(c, result) ==
    /\ out' = [out EXCEPT ![c] = Append(@, result)]
    /\ pc' = [pc EXCEPT ![c] = IF result.t = "item" THEN "idle" ELSE "finished"]

\* a tail kept in self._buffer while it is decoded
TailBufferKept(buf) == buf

\* self._buffer, tmp_buf = '', self._buffer (line 132): what self._buffer holds
\* while the decoder runs
TailBuffer(buf) == <<>>

(***************************************************************************)
(* SplitStream.__anext__ from the top of its loop up to its return, its    *)
(* raise or its next suspension; buf is self._buffer at the loop's top.    *)
(***************************************************************************)
Loop(c, buf, eos) ==
    LET buffer_split == Splitter(buf)
    IN  IF buffer_split # None
        THEN /\ buffer' = buffer_split.rest
             /\ Deliver(c, Item(buffer_split.obj))
             /\ UNCHANGED <<loaded, chunk, decoder_calls>>
        ELSE IF eos
        THEN /\ buffer' = TailBuffer(buf)
             /\ decoder_calls' = IF buf = <<>> THEN decoder_calls
                                 ELSE Append(decoder_calls, buf)
             /\ Deliver(c, IF buf = <<>> THEN StopAsyncIteration
                            ELSE IF framing = "json" THEN TailDecode(buf)
                            ELSE Item(SplitDecoder(buf)))
             /\ UNCHANGED <<loaded, chunk>>
        ELSE \* self._buffer += await super().__anext__()
             /\ buffer' = buf
             /\ loaded' = [loaded EXCEPT ![c] = buf]
             /\ chunk' = [chunk EXCEPT ![c] = <<>>]
             /\ pc' = [pc EXCEPT ![c] = IF wire' = <<>> THEN "closing" ELSE "reading"]
             /\ UNCHANGED <<out, decoder_calls>>

\* a consumer calls __anext__
AnextCall(c) ==
    /\ pc[c] = "idle"
    /\ Len(out[c]) < MaxItems
    /\ end_of_stream' = [end_of_stream EXCEPT ![c] = FALSE]
    /\ eof_reads' = [eof_reads EXCEPT ![c] = 0]
    /\ UNCHANGED <<docsIn, tailIn, wire, closeCalls, framing, received>>
    /\ Loop(c, buffer, FALSE)

\* a consumer calls __anext__ once more after a call of its had raised: a
\* further call of the caller's, or the drain of __aexit__ (line 57)
AnextAgain(c) ==
    /\ pc[c] = "finished"
    /\ Len(out[c]) < MaxItems
    /\ end_of_stream' = [end_of_stream EXCEPT ![c] = FALSE]
    /\ eof_reads' = [eof_reads EXCEPT ![c] = 0]
    /\ UNCHANGED <<docsIn, tailIn, wire, closeCalls, framing, received>>
    /\ Loop(c, buffer, FALSE)

\* response.content.readchunk() raises ClientPayloadError; line 71 wraps it,
\* and lines 139-141 let the wrapped error through
ReadFail(c) ==
    /\ pc[c] = "reading"
    /\ Deliver(c, Raised("ChunkedStreamingError", "ClientPayloadError"))
    /\ UNCHANGED <<docsIn, tailIn, wire, closeCalls, buffer, end_of_stream,
                   loaded, chunk, framing, eof_reads, received, decoder_calls>>

\* response.content.readchunk() returns (data, chunk_complete)
ReadChunk(c) ==
    /\ pc[c] = "reading"
    /\ wire # <<>>
    /\ \E k \in 1..Len(wire), chunk_complete \in BOOLEAN :
        /\ k = Len(wire) => chunk_complete
        /\ wire' = From(wire, k + 1)
        /\ UNCHANGED <<docsIn, tailIn, closeCalls, end_of_stream, framing,
                       eof_reads>>
        /\ LET data == chunk[c] \o SubSeq(wire, 1, k)
           IN  IF chunk_complete
               THEN /\ received' = received \o BytesDecode(data)
                    /\ Loop(c, loaded[c] \o BytesDecode(data), end_of_stream[c])
               ELSE /\ chunk' = [chunk EXCEPT ![c] = data]
                    /\ UNCHANGED <<buffer, pc, loaded, out, received,
                                   decoder_calls>>

\* response.close() returns; line 63 raises StopAsyncIteration, line 141 notes it
CloseDone(c) ==
    /\ pc[c] = "closing"
    /\ closeCalls' = closeCalls + 1
    /\ end_of_stream' = [end_of_stream EXCEPT ![c] = TRUE]
    /\ UNCHANGED <<docsIn, tailIn, wire, framing, eof_reads, received>>
    /\ Loop(c, buffer, TRUE)

\* response.content.readchunk() on a body that is not sent in HTTP chunks: the
\* data comes with chunk_complete False, and line 69 adds it to the local buffer
ReadUnframed(c) ==
    /\ pc[c] = "reading"
    /\ wire # <<>>
    /\ \E k \in 1..Len(wire) :
        /\ wire' = From(wire, k + 1)
        /\ chunk' = [chunk EXCEPT ![c] = @ \o SubSeq(wire, 1, k)]
    /\ UNCHANGED <<docsIn, tailIn, closeCalls, buffer, pc, end_of_stream, loaded,
                   out, framing, eof_reads, received, decoder_calls>>

\* response.content.readchunk() at the transport's end returns (b'', False)
\* at once: the loop of line 67 adds nothing and goes round again
ReadAtEof(c) ==
    /\ pc[c] = "reading"
    /\ wire = <<>>
    /\ eof_reads[c] < MaxSpin
    /\ eof_reads' = [eof_reads EXCEPT ![c] = @ + 1]
    /\ UNCHANGED <<docsIn, tailIn, wire, closeCalls, buffer, pc, end_of_stream,
                   loaded, chunk, out, framing, received, decoder_calls>>

(***************************************************************************)
(* AsyncExitStack (adocker/utils/contextlib.py).                           *)
(*                                                                         *)
(* An exit action is known by the position of its registration (1, 2, ..). *)
(* What is registered is described by                                      *)
(*   how    : the method that registered it,                               *)
(*   wrap   : the callable push() appended to _exit_callbacks,             *)
(*   target : what the caller handed in,                                   *)
(*   beh    : what the caller's release does when its body runs: it        *)
(*            returns nothing ("none"), returns a true value ("true") or   *)
(*            raises ("raise").                                            *)
(* Exceptions are numbers: 0 is the exception handed to __aexit__ (or      *)
(* being handled around it), i >= 1 the one raised by exit action i.       *)
(***************************************************************************)
NoExc == -1
Behaviours == {"none", "true", "raise"}

VARIABLES
    registry,        \* what each registration registered, in registration order
    exit_callbacks,  \* AsyncExitStack._exit_callbacks: the registered actions' numbers
    entering,        \* enter_async_context calls suspended in __aenter__
    upc,             \* where the __aexit__ call stands
    received_exc,    \* __aexit__'s local received_exc
    frame_exc,       \* __aexit__'s local frame_exc
    exc_details,     \* __aexit__'s local exc_details[1]
    suppressed_exc,  \* __aexit__'s local suppressed_exc
    pending_raise,   \* __aexit__'s local pending_raise
    context,         \* the __context__ of each exception
    waiting,         \* the action whose awaitable __aexit__ is awaiting (0: none)
    called,          \* how many times each action's callable was called by __aexit__
    ran,             \* how many times each action's release body ran to its end
    got,             \* the exception each action was last called with
    invoked,         \* the actions called by the current unwind, in order
    started,         \* the actions whose release body the current unwind began, in order
    uresult,         \* what the last unwind returned or raised
    unwinds,         \* the number of unwinds begun
    has_new,         \* pop_all() has been called and has returned a new stack
    new_callbacks,   \* _exit_callbacks of the stack pop_all() returned
    handed,          \* how many actions were registered when pop_all() was called
    unwinding        \* the stack of the last __aexit__ call: "self", or "new"
                     \* for the one pop_all() returned

stackVars == <<registry, exit_callbacks, entering, upc, received_exc, frame_exc,
               exc_details, suppressed_exc, pending_raise, context, waiting,
               called, ran, got, invoked, started, uresult, unwinds, has_new,
               new_callbacks, handed, unwinding>>

\* what pop_all() and the choice of the stack to unwind write
handoffVars == <<has_new, new_callbacks, handed, unwinding>>

ActionIds == 1..MaxActions

InitStack ==
    /\ registry = <<>>
    /\ exit_callbacks = <<>>
    /\ entering = <<>>
    /\ upc = "idle"
    /\ received_exc = FALSE
    /\ frame_exc = NoExc
    /\ exc_details = NoExc
    /\ suppressed_exc = FALSE
    /\ pending_raise = FALSE
    /\ context = [e \in 0..MaxActions |-> NoExc]
    /\ waiting = 0
    /\ called = [i \in ActionIds |-> 0]
    /\ ran = [i \in ActionIds |-> 0]
    /\ got = [i \in ActionIds |-> NoExc]
    /\ invoked = <<>>
    /\ started = <<>>
    /\ uresult = None
    /\ unwinds = 0
    /\ has_new = FALSE
    /\ new_callbacks = <<>>
    /\ handed = 0
    /\ unwinding = "self"

\* what push() appends for an object of each kind (lines 103-115)
PushWrap(target) ==
    IF target = "acm" THEN "cm_aexit"       \* type(exit).__aexit__ exists
    ELSE IF target = "cm" THEN "cm_exit"    \* type(exit).__exit__ exists
    ELSE "plain"                            \* assumed to be a callable

\* the wrapper callback() builds (lines 126-132)
CallbackWrap(target) ==
    IF target = "awaitable" THEN "cb_async" ELSE "cb_sync"

\* inspect.isawaitable(cb) of line 197: true of an object with __await__, a
\* coroutine object or a generator-based coroutine; false of any function
IsAwaitable(e) == e.wrap = "plain" /\ e.target = "awaitable"

\* cb(*exc_details) returns a coroutine object and runs nothing of the release
ReturnsCoroutine(e) ==
    \/ e.wrap \in {"cm_aexit", "cb_async"}
    \/ e.wrap = "plain" /\ e.target = "corofn"

\* cb(*exc_details) runs the release body before it returns
BodyRuns(e) ==
    \/ e.wrap = "cm_exit"
    \/ e.wrap = "plain" /\ e.target = "fn"
    \/ e.wrap = "cb_sync" /\ e.target = "fn"

\* what a release body that has run hands back through its wrapper
BodyOutcome(e) ==
    IF e.beh = "raise" THEN "raise"
    ELSE IF e.beh = "true" /\ e.wrap # "cb_sync" THEN "truthy"
    ELSE "falsy"

\* the result of line 200, result = cb(*exc_details)
CallOutcome(e) ==
    IF ReturnsCoroutine(e) THEN "truthy"
    ELSE IF BodyRuns(e) THEN BodyOutcome(e)
    ELSE "falsy"

\* _fix_exception_context's loop: the exception whose __context__ line 188
\* sets, or NoExc when line 182 returns
RECURSIVE FixTarget(_, _, _, _)
FixTarget(ctx, new_exc, old_exc, frame) ==
    LET exc_context == ctx[new_exc]
    IN  IF exc_context = old_exc THEN NoExc
        ELSE IF exc_context = NoExc \/ exc_context = frame THEN new_exc
        ELSE FixTarget(ctx, exc_context, old_exc, frame)

FixExceptionContext(ctx, new_exc, old_exc, frame) ==
    LET target == FixTarget(ctx, new_exc, old_exc, frame)
    IN  IF target = NoExc THEN ctx ELSE [ctx EXCEPT ![target] = old_exc]

\* a stack unwound from its bottom: popleft() for pop()
PopCallbackLeft(callbacks) ==
    [cb |-> Head(callbacks), rest |-> Tail(callbacks)]

\* the callback line 195 takes off the stack, and what it leaves
PopCallback(callbacks) ==
    [cb |-> Last(callbacks), rest |-> SubSeq(callbacks, 1, Len(callbacks) - 1)]

\* lines 201-210 after the call of action id ended as outcome
ApplyOutcome(st, id, outcome) ==
    IF outcome = "truthy"
    THEN [st EXCEPT !.suppressed_exc = TRUE, !.pending_raise = FALSE,
                    !.exc_details = NoExc]
    ELSE IF outcome = "raise"
    THEN \* the new exception's implicit __context__ is the one being handled
         LET raisedCtx == [st.context EXCEPT ![id] = st.frame_exc]
         IN  [st EXCEPT !.context = FixExceptionContext(raisedCtx, id,
                                        st.exc_details, st.frame_exc),
                        !.pending_raise = TRUE,
                        !.exc_details = id]
    ELSE st

\* the body of action id runs to its end
BodyDone(st, id) == [st EXCEPT !.ran[id] = @ + 1]

\* the while loop of lines 194-210 up to its end or its next suspension
RECURSIVE RunCallbacks(_)
RunCallbacks(st) ==
    IF st.exit_callbacks = <<>> THEN st
    ELSE LET popped == PopCallback(st.exit_callbacks)
             id     == popped.cb
             e      == registry[id]
             st1    == [st EXCEPT !.exit_callbacks = popped.rest,
                                  !.called[id] = @ + 1,
                                  !.got[id] = st.exc_details,
                                  !.invoked = Append(@, id)]
         IN  IF IsAwaitable(e)
             THEN \* result = await cb(*exc_details)
                  [st1 EXCEPT !.waiting = id, !.started = Append(@, id)]
             ELSE IF BodyRuns(e)
             THEN RunCallbacks(ApplyOutcome(
                      BodyDone([st1 EXCEPT !.started = Append(@, id)], id),
                      id, CallOutcome(e)))
             ELSE RunCallbacks(ApplyOutcome(st1, id, CallOutcome(e)))

\* self._exit_callbacks of the stack which
CallbacksOf(which) == IF which = "self" THEN exit_callbacks ELSE new_callbacks

UnwindState ==
    [exit_callbacks |-> CallbacksOf(unwinding), exc_details |-> exc_details,
     frame_exc |-> frame_exc, suppressed_exc |-> suppressed_exc,
     pending_raise |-> pending_raise, context |-> context, waiting |-> 0,
     called |-> called, ran |-> ran, got |-> got, invoked |-> invoked,
     started |-> started]

\* the unwind goes on from st to its end (lines 211-220) or its next suspension
Proceed(st0) ==
    LET st == RunCallbacks(st0)
    IN  /\ IF unwinding' = "self"
           THEN exit_callbacks' = st.exit_callbacks /\ UNCHANGED new_callbacks
           ELSE new_callbacks' = st.exit_callbacks /\ UNCHANGED exit_callbacks
        /\ exc_details' = st.exc_details
        /\ suppressed_exc' = st.suppressed_exc
        /\ pending_raise' = st.pending_raise
        /\ context' = st.context
        /\ waiting' = st.waiting
        /\ called' = st.called
        /\ ran' = st.ran
        /\ got' = st.got
        /\ invoked' = st.invoked
        /\ started' = st.started
        /\ IF st.waiting # 0
           THEN upc' = "awaiting" /\ uresult' = None
           ELSE IF st.pending_raise
           THEN /\ upc' = "raised"
                /\ uresult' = [t |-> "raise", exc |-> st.exc_details]
           ELSE /\ upc' = "returned"
                /\ uresult' = [t |-> "return", v |-> received_exc' /\ st.suppressed_exc]

\* the stack is filled, then unwound: nothing is registered once an unwind began
Filling == unwinds = 0

Registering(how, wrap, target, beh) ==
    /\ Len(registry) < MaxActions
    /\ registry' = Append(registry, [how |-> how, wrap |-> wrap, target |-> target,
                                     beh |-> beh])
    /\ exit_callbacks' = Append(exit_callbacks, Len(registry) + 1)
    /\ UNCHANGED <<upc, received_exc, frame_exc, exc_details, suppressed_exc,
                   pending_raise, context, waiting, called, ran, got, invoked,
                   started, uresult, unwinds>>
    /\ UNCHANGED handoffVars

\* a registration made before any unwind of the stack
Register(how, wrap, target, beh) ==
    /\ Filling
    /\ Registering(how, wrap, target, beh)

\* push(exit)
Push(target, beh) ==
    /\ Register("push", PushWrap(target), target, beh)
    /\ UNCHANGED entering

\* callback(callback, *args, **kwds)
Callback(target, beh) ==
    /\ Register("callback", CallbackWrap(target), target, beh)
    /\ UNCHANGED entering

\* enter_context(cm), with __enter__ returning
EnterContext(beh) ==
    /\ Register("enter_context", "cm_exit", "cm", beh)
    /\ UNCHANGED entering

\* enter_async_context(cm) up to its await of __aenter__ (line 161)
EnterAsyncContext(beh) ==
    /\ Filling
    /\ entering = <<>>
    /\ Len(registry) < MaxActions
    /\ entering' = <<beh>>
    /\ UNCHANGED <<registry, exit_callbacks, upc, received_exc, frame_exc,
                   exc_details, suppressed_exc, pending_raise, context, waiting,
                   called, ran, got, invoked, started, uresult, unwinds>>
    /\ UNCHANGED handoffVars

\* __aenter__ returns and line 162 registers the release
EnterAsyncDone ==
    /\ entering # <<>>
    /\ Registering("enter_async_context", "cm_aexit", "acm", Head(entering))
    /\ entering' = <<>>

\* __aenter__ raises: nothing is registered
EnterAsyncFailed ==
    /\ entering # <<>>
    /\ entering' = <<>>
    /\ UNCHANGED <<registry, exit_callbacks, upc, received_exc, frame_exc,
                   exc_details, suppressed_exc, pending_raise, context, waiting,
                   called, ran, got, invoked, started, uresult, unwinds>>
    /\ UNCHANGED handoffVars

\* __aexit__(type(exc), exc, tb), or close() with exc = NoExc, called while
\* frame (or nothing) is the exception being handled
UnwindNow(which, exc, frame) ==
    /\ upc # "awaiting"
    /\ unwinds < MaxUnwinds
    /\ unwinds' = unwinds + 1
    /\ unwinding' = which
    /\ received_exc' = (exc # NoExc)
    /\ frame_exc' = frame
    /\ Proceed([UnwindState EXCEPT !.exit_callbacks = CallbacksOf(which),
                                   !.exc_details = exc, !.frame_exc = frame,
                                   !.suppressed_exc = FALSE,
                                   !.pending_raise = FALSE,
                                   !.invoked = <<>>, !.started = <<>>])
    /\ UNCHANGED <<registry, entering, has_new, handed>>

\* an unwind begun while no enter_async_context call is suspended
Unwind(which, exc, frame) ==
    /\ entering = <<>>
    /\ UnwindNow(which, exc, frame)

Aexit(exc, frame) == Unwind("self", exc, frame)

\* __aexit__ (or close) called by a task at any time, also while another task's
\* enter_async_context call is suspended in __aenter__ (the warning of
\* lines 56-59)
AexitAnyTime(exc) == UnwindNow("self", exc, NoExc)

\* __aexit__ (or close) of the stack pop_all() returned
AexitNew(exc, frame) == has_new /\ Unwind("new", exc, frame)

\* a stack that keeps what it hands over: line 68 left out
PopAllKeeping ==
    /\ ~has_new
    /\ has_new' = TRUE
    /\ new_callbacks' = exit_callbacks
    /\ handed' = Len(registry)
    /\ UNCHANGED <<registry, exit_callbacks, entering, upc, received_exc,
                   frame_exc, exc_details, suppressed_exc, pending_raise, context,
                   waiting, called, ran, got, invoked, started, uresult, unwinds,
                   unwinding>>

\* pop_all(): the new stack takes the deque, the original a fresh one
PopAll ==
    /\ ~has_new
    /\ has_new' = TRUE
    /\ new_callbacks' = exit_callbacks
    /\ exit_callbacks' = <<>>
    /\ handed' = Len(registry)
    /\ UNCHANGED <<registry, entering, upc, received_exc, frame_exc, exc_details,
                   suppressed_exc, pending_raise, context, waiting, called, ran,
                   got, invoked, started, uresult, unwinds, unwinding>>

\* the awaitable returned by cb(*exc_details) completes (line 198)
AwaitDone ==
    /\ upc = "awaiting"
    /\ UNCHANGED <<registry, entering, received_exc, frame_exc, unwinds, has_new,
                   handed, unwinding>>
    /\ LET id == waiting
       IN  Proceed(ApplyOutcome(BodyDone(UnwindState, id), id,
                                BodyOutcome(registry[id])))

(***************************************************************************)
(* StreamableResponse (adocker/utils/streamed_response.py).                *)
(*                                                                         *)
(* Tasks call its operations; a task runs until it suspends.  The pending  *)
(* response is an awaitable: a coroutine object can be awaited once only   *)
(* (a second await raises RuntimeError), a future any number of times.     *)
(***************************************************************************)
Tasks == {"t1", "t2"}
NoLimit == -1
Operations == {"ready", "get_response", "get_stream", "as_list"}

\* the operations of a StreamableResponse used as a scope and stepped by hand
ScopeOperations == {"ready", "get_response", "get_stream", "aenter", "aexit",
                    "anext", "complete"}
TheResponse == [t |-> "response"]
\* what StreamableResponse.__anext__ returns (line 113): self.stream.__anext__()
\* called and not awaited
CoroutineObject == [t |-> "coroutine"]
\* the classes a caller may hand to the constructor as stream_class
StreamClasses == {"JsonStream", "SplitStream"}

VARIABLES
    pending_kind,   \* what pending_response is: "coroutine" or "future"
    resolved,       \* the pending response has produced the response
    awaits,         \* how many times pending_response has been awaited
    response,       \* StreamableResponse.response
    stream,         \* StreamableResponse.stream
    built,          \* how many stream objects ready() has constructed
    tpc,            \* where each task stands
    top,            \* the operation each task is in
    targ,           \* as_list's n
    results,        \* as_list's local results
    tret,           \* what each task's last operation returned or raised
    calls,          \* how many operations each task has called
    entered,        \* how many times response.__aenter__ has been awaited
    released,       \* how many times response.__aexit__ has been awaited
    stream_class    \* StreamableResponse.stream_class

respVars == <<stream_class, pending_kind, resolved, awaits, response, stream, built, tpc, top,
              targ, results, tret, calls, entered, released>>

vars == <<streamVars, stackVars, respVars>>

InitResponse ==
    /\ stream_class \in StreamClasses
    /\ pending_kind \in {"coroutine", "future"}
    /\ resolved = FALSE
    /\ awaits = 0
    /\ response = None
    /\ stream = None
    /\ built = 0
    /\ tpc = [t \in Tasks |-> "idle"]
    /\ top = [t \in Tasks |-> "none"]
    /\ targ = [t \in Tasks |-> NoLimit]
    /\ results = [t \in Tasks |-> <<>>]
    /\ tret = [t \in Tasks |-> None]
    /\ calls = [t \in Tasks |-> 0]
    /\ entered = 0
    /\ released = 0

\* as_list's loop runs without suspending once the response is set
Spinning == \E t \in Tasks : tpc[t] = "as_list_loop"

Return(t, value) ==
    /\ tret' = [tret EXCEPT ![t] = value]
    /\ tpc' = [tpc EXCEPT ![t] = "done"]

\* the operation of task t goes on after its ready() has returned, the
\* response and the stream being resp and strm, as_list's results being res
AfterReady(t, op, resp, strm, res) ==
    IF op = "as_list"
    THEN \* line 93 gets what __anext__ returns, line 96 appends it
         /\ results' = [results EXCEPT ![t] = Append(res, CoroutineObject)]
         /\ tpc' = [tpc EXCEPT ![t] = "as_list_loop"]
         /\ UNCHANGED <<tret, entered, released>>
    ELSE /\ Return(t, CASE op = "get_response" -> resp
                        [] op = "get_stream" -> strm
                        \* __aenter__ returns self (line 105)
                        [] op = "aenter" -> [t |-> "self"]
                        \* __anext__ returns the call it does not await (line 113)
                        [] op = "anext" -> CoroutineObject
                        \* complete: the for statement of line 72 raises
                        \* TypeError, self having no __iter__; __aexit__
                        \* (lines 108-109) does not suppress it
                        [] op = "complete" -> Raised("TypeError", None)
                        [] OTHER -> None)
         /\ results' = [results EXCEPT ![t] = res]
         \* await self.response.__aenter__() (line 104; by line 71 in complete)
         /\ entered' = IF op \in {"aenter", "complete"} THEN entered + 1 ELSE entered
         \* await self.response.__aexit__(exc_type, exc, tb) (line 109)
         /\ released' = IF op \in {"aexit", "complete"} THEN released + 1 ELSE released

\* ready() with no second check: every caller resumed assigns
SecondCheckMissing(t, op, res) ==
    /\ response' = TheResponse
    /\ stream' = [t |-> "JsonStream", id |-> built + 1]
    /\ built' = built + 1
    /\ AfterReady(t, op, response', stream', res)

\* lines 47-49: the second check of ready()
SecondCheck(t, op, res) ==
    IF response = None
    THEN /\ response' = TheResponse
         /\ stream' = [t |-> "JsonStream", id |-> built + 1]
         /\ built' = built + 1
         /\ AfterReady(t, op, response', stream', res)
    ELSE /\ UNCHANGED <<response, stream, built>>
         /\ AfterReady(t, op, response, stream, res)

\* ready() from its call to its return or its suspension (lines 43-44)
Ready(t, op, res) ==
    IF response # None
    THEN /\ AfterReady(t, op, response, stream, res)
         /\ UNCHANGED <<awaits, response, stream, built>>
    ELSE /\ awaits' = awaits + 1
         /\ IF pending_kind = "coroutine" /\ awaits > 0
            THEN \* the coroutine is being awaited already, or was awaited
                 /\ Return(t, Raised("RuntimeError", None))
                 /\ results' = [results EXCEPT ![t] = res]
                 /\ UNCHANGED <<response, stream, built, entered, released>>
            ELSE IF resolved
            THEN \* a future that is done does not suspend its awaiter
                 SecondCheck(t, op, res)
            ELSE /\ tpc' = [tpc EXCEPT ![t] = "await_pending"]
                 /\ results' = [results EXCEPT ![t] = res]
                 /\ UNCHANGED <<response, stream, built, tret, entered, released>>

\* as_list's loop from its top (line 90) to its return or its next suspension
AsListTop(t, n, res) ==
    IF n # NoLimit /\ Len(res) >= n
    THEN /\ Return(t, [t |-> "list", v |-> res])
         /\ results' = [results EXCEPT ![t] = res]
         /\ UNCHANGED <<awaits, response, stream, built, entered, released>>
    ELSE \* line 93: await stream.__anext__(), which awaits self.ready()
         Ready(t, "as_list", res)

\* a task calls ready(), get_response(), get_stream() or as_list(n)
Call(t, op, n) ==
    /\ ~Spinning
    /\ tpc[t] \in {"idle", "done"}
    /\ calls[t] < MaxCalls
    /\ calls' = [calls EXCEPT ![t] = @ + 1]
    /\ top' = [top EXCEPT ![t] = op]
    /\ targ' = [targ EXCEPT ![t] = n]
    /\ UNCHANGED <<stream_class, pending_kind, resolved>>
    /\ IF op = "as_list"
       THEN AsListTop(t, n, <<>>)
       ELSE Ready(t, op, results[t])

\* the pending response produces the response
Resolve ==
    /\ ~Spinning
    /\ ~resolved
    /\ pending_kind = "coroutine" => awaits > 0
    /\ resolved' = TRUE
    /\ UNCHANGED <<stream_class, pending_kind, awaits, response, stream, built, tpc, top, targ,
                   results, tret, calls, entered, released>>

\* line 44 returns to a suspended ready()
ReadyResume(t) ==
    /\ ~Spinning
    /\ tpc[t] = "await_pending"
    /\ resolved
    /\ UNCHANGED <<stream_class, pending_kind, resolved, awaits, top, targ, calls>>
    /\ SecondCheck(t, top[t], results[t])

\* one more iteration of as_list's loop
AsListStep(t) ==
    /\ tpc[t] = "as_list_loop"
    /\ Len(results[t]) < MaxSpin
    /\ UNCHANGED <<stream_class, pending_kind, resolved, top, targ, calls>>
    /\ AsListTop(t, targ[t], results[t])

(***************************************************************************)
(* The specifications: one per component, the other components at rest.    *)
(***************************************************************************)
NextStream ==
    \E c \in Consumers :
        \/ AnextCall(c) /\ UNCHANGED <<stackVars, respVars>>
        \/ ReadChunk(c) /\ UNCHANGED <<stackVars, respVars>>
        \/ CloseDone(c) /\ UNCHANGED <<stackVars, respVars>>

\* a StreamableResponse nobody has used
ResponseAtRest ==
    /\ InitResponse
    /\ stream_class = "JsonStream"
    /\ pending_kind = "future"

\* a transport that delivers nothing, and nobody iterating
StreamAtRest ==
    /\ InitStream
    /\ framing = "json"
    /\ docsIn = <<>>
    /\ tailIn = TailNone

InitStreamSpec == InitStream /\ framing = "json" /\ InitStack /\ ResponseAtRest

SpecStream == InitStreamSpec /\ [][NextStream]_vars

\* a SplitStream of the base class over lines of text
InitSplitSpec == InitStream /\ framing = "split" /\ InitStack /\ ResponseAtRest

SpecSplit == InitSplitSpec /\ [][NextStream]_vars

\* a JsonStream over a body that is not sent in HTTP chunks
NextUnframed ==
    \E c \in Consumers :
        \/ AnextCall(c) /\ UNCHANGED <<stackVars, respVars>>
        \/ AnextAgain(c) /\ UNCHANGED <<stackVars, respVars>>
        \/ ReadUnframed(c) /\ UNCHANGED <<stackVars, respVars>>
        \/ ReadAtEof(c) /\ UNCHANGED <<stackVars, respVars>>
        \/ CloseDone(c) /\ UNCHANGED <<stackVars, respVars>>

InitUnframedSpec == InitStream /\ framing = "json" /\ InitStack /\ ResponseAtRest

SpecUnframed == InitUnframedSpec /\ [][NextUnframed]_vars

\* a JsonStream over a transport that also delivers a closing brace no
\* document starts with
DocStray == <<"}">>

InitGarbledSpec ==
    /\ framing = "json"
    /\ docsIn \in SeqsUpTo({DocStray, DocEmpty}, MaxDocs)
    /\ tailIn \in {TailNone, TailUnclosed}
    /\ wire = Concat(docsIn) \o tailIn
    /\ closeCalls = 0
    /\ buffer = <<>>
    /\ pc = [c \in Sharers |-> "idle"]
    /\ end_of_stream = [c \in Sharers |-> FALSE]
    /\ loaded = [c \in Sharers |-> <<>>]
    /\ chunk = [c \in Sharers |-> <<>>]
    /\ out = [c \in Sharers |-> <<>>]
    /\ eof_reads = [c \in Sharers |-> 0]
    /\ received = <<>>
    /\ decoder_calls = <<>>
    /\ InitStack
    /\ ResponseAtRest

SpecGarbled == InitGarbledSpec /\ [][NextStream]_vars

\* one JsonStream iterated by two tasks
NextShared ==
    \E c \in Sharers :
        \/ AnextCall(c) /\ UNCHANGED <<stackVars, respVars>>
        \/ ReadChunk(c) /\ UNCHANGED <<stackVars, respVars>>
        \/ CloseDone(c) /\ UNCHANGED <<stackVars, respVars>>

InitSharedSpec ==
    /\ InitStream
    /\ framing = "json"
    /\ docsIn \in SeqsUpTo({DocEmpty}, MaxDocs)
    /\ tailIn = TailNone
    /\ InitStack
    /\ ResponseAtRest

SpecShared == InitSharedSpec /\ [][NextShared]_vars

\* a JsonStream called again after its end, over a transport that may fail
NextFaulty ==
    \E c \in Consumers :
        \/ AnextCall(c) /\ UNCHANGED <<stackVars, respVars>>
        \/ ReadChunk(c) /\ UNCHANGED <<stackVars, respVars>>
        \/ CloseDone(c) /\ UNCHANGED <<stackVars, respVars>>
        \/ AnextAgain(c) /\ UNCHANGED <<stackVars, respVars>>
        \/ ReadFail(c) /\ UNCHANGED <<stackVars, respVars>>

InitFaultySpec ==
    /\ InitStream
    /\ framing = "json"
    /\ docsIn \in SeqsUpTo({DocEmpty}, MaxDocs)
    /\ tailIn \in {TailNone, TailUnclosed}
    /\ InitStack
    /\ ResponseAtRest

SpecFaulty == InitFaultySpec /\ [][NextFaulty]_vars

NextStack ==
    \/ \E target \in {"fn", "corofn", "awaitable", "cm", "acm"}, beh \in Behaviours :
           Push(target, beh) /\ UNCHANGED <<streamVars, respVars>>
    \/ \E target \in {"fn", "corofn", "awaitable"}, beh \in Behaviours :
           Callback(target, beh) /\ UNCHANGED <<streamVars, respVars>>
    \/ \E beh \in Behaviours :
           EnterContext(beh) /\ UNCHANGED <<streamVars, respVars>>
    \/ \E beh \in Behaviours :
           EnterAsyncContext(beh) /\ UNCHANGED <<streamVars, respVars>>
    \/ EnterAsyncDone /\ UNCHANGED <<streamVars, respVars>>
    \/ EnterAsyncFailed /\ UNCHANGED <<streamVars, respVars>>
    \/ \E exc \in {NoExc, 0}, frame \in {NoExc, 0} :
           Aexit(exc, frame) /\ UNCHANGED <<streamVars, respVars>>
    \/ AwaitDone /\ UNCHANGED <<streamVars, respVars>>

InitStackSpec == InitStack /\ StreamAtRest /\ ResponseAtRest

SpecStack == InitStackSpec /\ [][NextStack]_vars

\* a stack that is filled, handed over by pop_all() and unwound, and the
\* stack pop_all() returned
NextHandoff ==
    \/ \E target \in {"fn", "awaitable", "acm"}, beh \in Behaviours :
           Push(target, beh) /\ UNCHANGED <<streamVars, respVars>>
    \/ PopAll /\ UNCHANGED <<streamVars, respVars>>
    \/ \E exc \in {NoExc, 0} :
           Aexit(exc, NoExc) /\ UNCHANGED <<streamVars, respVars>>
    \/ \E exc \in {NoExc, 0} :
           AexitNew(exc, NoExc) /\ UNCHANGED <<streamVars, respVars>>
    \/ AwaitDone /\ UNCHANGED <<streamVars, respVars>>

SpecHandoff == InitStackSpec /\ [][NextHandoff]_vars

\* a stack one task enters asynchronous context managers on while another
\* task unwinds it
NextRace ==
    \/ \E target \in {"fn", "awaitable"}, beh \in Behaviours :
           Push(target, beh) /\ UNCHANGED <<streamVars, respVars>>
    \/ \E beh \in Behaviours :
           EnterAsyncContext(beh) /\ UNCHANGED <<streamVars, respVars>>
    \/ EnterAsyncDone /\ UNCHANGED <<streamVars, respVars>>
    \/ EnterAsyncFailed /\ UNCHANGED <<streamVars, respVars>>
    \/ \E exc \in {NoExc, 0} :
           AexitAnyTime(exc) /\ UNCHANGED <<streamVars, respVars>>
    \/ AwaitDone /\ UNCHANGED <<streamVars, respVars>>

SpecRace == InitStackSpec /\ [][NextRace]_vars

NextResponse ==
    \/ \E t \in Tasks, op \in Operations, n \in {NoLimit} \cup 0..MaxN :
           /\ op # "as_list" => n = NoLimit
           /\ Call(t, op, n)
           /\ UNCHANGED <<streamVars, stackVars>>
    \/ Resolve /\ UNCHANGED <<streamVars, stackVars>>
    \/ \E t \in Tasks : ReadyResume(t) /\ UNCHANGED <<streamVars, stackVars>>
    \/ \E t \in Tasks : AsListStep(t) /\ UNCHANGED <<streamVars, stackVars>>

\* the stream behind the response holds 0..MaxDocs documents and no tail
InitResponseSpec ==
    /\ InitResponse
    /\ stream_class = "JsonStream"
    /\ InitStream
    /\ framing = "json"
    /\ docsIn \in SeqsUpTo({DocNum}, MaxDocs)
    /\ tailIn = TailNone
    /\ InitStack

SpecResponse == InitResponseSpec /\ [][NextResponse]_vars

\* a StreamableResponse used as a scope: entered, stepped, left, completed
NextScope ==
    \/ \E t \in Tasks, op \in ScopeOperations :
           Call(t, op, NoLimit) /\ UNCHANGED <<streamVars, stackVars>>
    \/ Resolve /\ UNCHANGED <<streamVars, stackVars>>
    \/ \E t \in Tasks : ReadyResume(t) /\ UNCHANGED <<streamVars, stackVars>>

SpecScope == InitResponseSpec /\ [][NextScope]_vars

\* a StreamableResponse constructed with any stream_class, used as a scope
InitClassSpec ==
    /\ InitResponse
    /\ InitStream
    /\ framing = "json"
    /\ docsIn = <<DocNum>>
    /\ tailIn = TailNone
    /\ InitStack

SpecClass == InitClassSpec /\ [][NextScope]_vars

(***************************************************************************)
(* Helpers of the properties.                                              *)
(***************************************************************************)
Range(f) == {f[i] : i \in DOMAIN f}

Done == upc \in {"returned", "raised"}

\* the decoded objects of the documents written to the transport
DocValues == [i \in 1..Len(docsIn) |-> Item(DocValue(docsIn[i]))]

\* the objects a correct decoder finds in text, in order (text holds whole
\* documents only)
RECURSIVE ObjectsIn(_)
ObjectsIn(text) ==
    LET r == RawDecode(text)
    IN  IF text = <<>> \/ ~r.ok THEN <<>>
        ELSE <<Item(r.val)>> \o ObjectsIn(From(text, r.end))

StrictlyDecreasing(s) == \A i, j \in 1..Len(s) : i < j => s[i] > s[j]

\* the release of action i ran in the current unwind and returned a true value
Signalled(i) ==
    i \in Range(started) /\ ran[i] > 0 /\ BodyOutcome(registry[i]) = "truthy"

\* the release of action i ran in the current unwind and raised
Failed(i) ==
    i \in Range(started) /\ ran[i] > 0 /\ BodyOutcome(registry[i]) = "raise"

\* The exception in flight after the first k actions of the current unwind,
\* as the with statement defines it: a release that raises replaces it, a
\* release that returns a true value clears it, any other release leaves it.
RECURSIVE InFlight(_)
InFlight(k) ==
    IF k = 0 THEN (IF received_exc THEN 0 ELSE NoExc)
    ELSE IF Failed(invoked[k]) THEN invoked[k]
    ELSE IF Signalled(invoked[k]) THEN NoExc
    ELSE InFlight(k - 1)

(***************************************************************************)
(* C1: chunk-boundary independence.  When N complete documents are written *)
(* back-to-back and nothing after them, then however the bytes are cut     *)
(* into chunks, iterating the JsonStream to its end yields the N decoded   *)
(* documents, in order, and then exhaustion.                               *)
(***************************************************************************)
C1_ChunkBoundaryIndependence ==
    \A c \in Consumers :
        (pc[c] = "finished" /\ tailIn = TailNone)
            => out[c] = DocValues \o <<StopAsyncIteration>>

(***************************************************************************)
(* C2: ready() resolves once.  However many tasks call ready() (alone or   *)
(* through get_response and get_stream) before the response is there, the  *)
(* pending response is awaited once in all, no caller fails, one stream is *)
(* constructed, and the callers that returned saw that response and that   *)
(* stream.                                                                 *)
(***************************************************************************)
C2_ReadyResolvesOnce ==
    /\ awaits <= 1
    /\ built <= 1
    /\ \A t \in Tasks :
        tpc[t] = "done" =>
            /\ tret[t].t # "error"
            /\ top[t] = "get_response" => tret[t] = TheResponse
            /\ top[t] = "get_stream" => tret[t] = [t |-> "JsonStream", id |-> 1]

(***************************************************************************)
(* C3: partial-failure tolerance.  When an unwind has returned or raised,  *)
(* the release of every registered exit action has been run, whichever of  *)
(* them raised.                                                            *)
(***************************************************************************)
C3_EveryReleaseAttempted ==
    Done => \A i \in 1..Len(registry) : ran[i] >= 1

(***************************************************************************)
(* C4: exactly-once execution.  When an unwind has returned or raised, the *)
(* stack is empty and every exit action, however it was registered, was    *)
(* called once and its release ran to its end once; an unwind after the    *)
(* first calls nothing.                                                    *)
(***************************************************************************)
C4_ExactlyOnce ==
    Done =>
        /\ exit_callbacks = <<>>
        /\ \A i \in 1..Len(registry) : called[i] = 1 /\ ran[i] = 1
        /\ unwinds > 1 => invoked = <<>>

(***************************************************************************)
(* C5: ordering.  Within an unwind the exit actions are called, and their  *)
(* releases begun, in reverse registration order, and a release begins     *)
(* only when every release begun before it has run to its end: at most the *)
(* release begun last is still running, and then the unwind is awaiting it.*)
(***************************************************************************)
C5_ReverseOrderOneAtATime ==
    /\ StrictlyDecreasing(invoked)
    /\ StrictlyDecreasing(started)
    /\ \A k \in 1..Len(started) :
        (k < Len(started) \/ upc # "awaiting") => ran[started[k]] = 1
    /\ upc = "awaiting" =>
        /\ started # <<>>
        /\ waiting = Last(started)
        /\ ran[waiting] = 0
    /\ \A i \in Range(exit_callbacks), j \in Range(invoked) : i < j

\* an unwind has run every release of a full stack, the first of them awaited
C5_Witness ==
    /\ Done
    /\ Len(registry) = MaxActions
    /\ Len(started) = MaxActions
    /\ IsAwaitable(registry[started[1]])
    /\ \A i \in 1..Len(registry) : ran[i] = 1

(***************************************************************************)
(* C6: suppression.  An exception in flight when the unwind ends has been  *)
(* propagated: the unwind raised it if a release raised it, and did not    *)
(* return true if it is the one the unwind received.  The unwind returns   *)
(* true only if it received an exception and the release of some exit      *)
(* action ran and returned a true value.                                   *)
(***************************************************************************)
C6_SuppressionOnlyWhenSignalled ==
    Done =>
        /\ InFlight(Len(invoked)) >= 1 => upc = "raised"
        /\ InFlight(Len(invoked)) = 0 => uresult = [t |-> "return", v |-> FALSE]
        /\ uresult = [t |-> "return", v |-> TRUE] =>
              received_exc /\ \E i \in Range(invoked) : Signalled(i)

(***************************************************************************)
(* C7: error surfacing and chaining.  Every exit action is called with the *)
(* exception then in flight; the __context__ of an exception raised by a   *)
(* release is the exception that was in flight when it was raised; and if  *)
(* the exception in flight when the unwind ends was raised by a release,   *)
(* the unwind raises that exception.                                       *)
(***************************************************************************)
C7_ErrorSurfacedAndChained ==
    Done =>
        /\ \A k \in 1..Len(invoked) : got[invoked[k]] = InFlight(k - 1)
        /\ \A k \in 1..Len(invoked) :
              Failed(invoked[k]) => context[invoked[k]] = InFlight(k - 1)
        /\ InFlight(Len(invoked)) >= 1 =>
              uresult = [t |-> "raise", exc |-> InFlight(Len(invoked))]

(***************************************************************************)
(* C8: as_list(n) takes a prefix and does not over-read.  The first        *)
(* operation on a StreamableResponse being as_list(n), on a stream of k    *)
(* documents, it returns the first min(n, k) decoded documents in order,   *)
(* and leaves the other k - min(n, k) documents to be read.                *)
(***************************************************************************)
C8_AsListPrefix ==
    \A t \in Tasks :
        ( /\ tpc[t] = "done" /\ top[t] = "as_list" /\ targ[t] # NoLimit
          /\ calls[t] = 1 /\ \A u \in Tasks \ {t} : calls[u] = 0 )
        => LET k    == Len(docsIn)
               take == IF targ[t] < k THEN targ[t] ELSE k
           IN  /\ tret[t] = [t |-> "list", v |-> SubSeq(DocValues, 1, take)]
               /\ ObjectsIn(buffer \o BytesDecode(wire)) = SubSeq(DocValues, take + 1, k)

(***************************************************************************)
(* C9: as_list() with n unspecified ends at exhaustion.  It never holds    *)
(* more results than the stream has documents, as it would if exhaustion   *)
(* did not end it; on a transport with no chunk its results stay empty.    *)
(***************************************************************************)
C9_AsListEndsAtExhaustion ==
    \A t \in Tasks :
        (top[t] = "as_list" /\ targ[t] = NoLimit)
            => Len(results[t]) <= Len(docsIn)

(***************************************************************************)
(* C10: malformed tail.  When the transport is at its end and the text     *)
(* left in the buffer cannot be decoded, the iteration step raises         *)
(* ChunkedStreamingError with the parse error as its cause; every document *)
(* written before the tail was yielded before it; and no error other than  *)
(* a ChunkedStreamingError is ever raised to the caller.                   *)
(***************************************************************************)
C10_MalformedTailWrapped ==
    /\ [](\A c \in Consumers : \A i \in 1..Len(out[c]) :
            out[c][i].t = "error" =>
                /\ out[c][i] = Raised("ChunkedStreamingError", "JSONDecodeError")
                /\ i = Len(docsIn) + 1
                /\ \A j \in 1..(i - 1) : out[c][j].t = "item")
    /\ [][\A c \in Consumers :
            ( /\ pc[c] = "closing" /\ pc'[c] # "closing"
              /\ buffer # <<>> /\ ~JsonDecode(buffer).ok )
            => out'[c] = Append(out[c], Raised("ChunkedStreamingError",
                                               "JSONDecodeError"))]_vars

\* an unterminated object after two documents has ended the iteration
C10_Witness ==
    \E c \in Consumers :
        /\ pc[c] = "finished"
        /\ tailIn = TailUnclosed
        /\ Len(docsIn) = 2
        /\ Len(out[c]) = 3
        /\ out[c][3] = Raised("ChunkedStreamingError", "JSONDecodeError")

(***************************************************************************)
(* C11: tail handling.  When the bytes written end with a valid JSON       *)
(* document and nothing after it, then however they are cut into chunks,   *)
(* iterating the JsonStream to its end yields one result per document      *)
(* written, the last of them being that trailing document, yielded once,   *)
(* and then reports exhaustion.                                            *)
(***************************************************************************)
C11_TrailingDocumentOnce ==
    \A c \in Consumers :
        (pc[c] = "finished" /\ tailIn = TailNone /\ docsIn # <<>>)
            => /\ Len(out[c]) = Len(docsIn) + 1
               /\ out[c][Len(docsIn)] = Item(DocValue(Last(docsIn)))
               /\ Last(out[c]) = StopAsyncIteration

\* how many of the results of consumer c are yielded objects
ItemCount(c) == Cardinality({i \in 1..Len(out[c]) : out[c][i].t = "item"})

\* the two-character terminator of a line, and where text first holds it
\* (0: nowhere)
Marker == <<"\r", "\n">>

MarkerAt(text) ==
    LET at == {i \in 1..(Len(text) - 1) : SubSeq(text, i, i + 1) = Marker}
    IN  IF at = {} THEN 0 ELSE CHOOSE i \in at : \A j \in at : i <= j

\* what the claim C19 says of splitter(text)
FramesAsSpecified(text) ==
    LET r == SplitSplitter(text)
        m == MarkerAt(text)
    IN  /\ (m = 0) <=> (r = None)
        /\ (m # 0 /\ r # None) =>
              /\ r.obj = SubSeq(text, 1, m - 1)
              /\ r.rest = SubSeq(text, m + 2, Len(text))
              /\ Len(r.rest) < Len(text)

(***************************************************************************)
(* C14: single pass with two consumers.  When two tasks iterate one        *)
(* JsonStream over whole documents, their calls interleaved at the awaits, *)
(* every object either of them is given is one of the documents, no call   *)
(* raises an error, the two are given no more objects between them than    *)
(* there are documents, and when both have seen exhaustion every document  *)
(* has been given to one of them: no text is lost or used twice.           *)
(***************************************************************************)
C14_DisjointSubsets ==
    /\ \A c \in Sharers : \A i \in 1..Len(out[c]) :
          /\ out[c][i].t # "error"
          /\ out[c][i].t = "item" => out[c][i] \in Range(DocValues)
    /\ ItemCount("c1") + ItemCount("c2") <= Len(docsIn)
    /\ (\A c \in Sharers : pc[c] = "finished")
          => ItemCount("c1") + ItemCount("c2") = Len(docsIn)

(***************************************************************************)
(* C16: transport close exactly once.  Over any sequence of __anext__      *)
(* calls, calls after end of stream included, response.close() is never    *)
(* called more than once, and it has been called once when a call has      *)
(* reported exhaustion.                                                    *)
(***************************************************************************)
C16_CloseExactlyOnce ==
    /\ closeCalls <= 1
    /\ \A c \in Consumers :
          (\E i \in 1..Len(out[c]) : out[c][i] = StopAsyncIteration)
              => closeCalls = 1

(***************************************************************************)
(* C17: transport failures are a distinct error kind.  An error raised to  *)
(* the iterating caller because a chunk read failed is of another kind     *)
(* than the error raised for a tail that cannot be decoded.                *)
(***************************************************************************)
C17_TransportFailureDistinct ==
    \A c \in Consumers : \A i \in 1..Len(out[c]) :
        (out[c][i].t = "error" /\ out[c][i].cause = "ClientPayloadError")
            => out[c][i].kind # TailDecode(TailUnclosed).kind

(***************************************************************************)
(* C19: delimiter framing of SplitStream.  Of the text the stream holds,   *)
(* and of that text with everything the transport has yet to deliver,      *)
(* splitter reports no frame if and only if the text holds no terminator;  *)
(* otherwise the frame is the text before the terminator, the remainder    *)
(* is the text after it, and the remainder is shorter than the text.       *)
(***************************************************************************)
C19_DelimiterFraming ==
    /\ FramesAsSpecified(buffer)
    /\ FramesAsSpecified(buffer \o BytesDecode(wire))

(***************************************************************************)
(* C20: iteration ends on finite input.  A consumer of a stream over a     *)
(* transport that delivers finitely many bytes is never given more frames  *)
(* than bytes were written, as it would be if the extraction returned      *)
(* frames without using up the buffer or reading the transport.            *)
(***************************************************************************)
C20_FinitelyManyFrames ==
    \A c \in Consumers :
        ItemCount(c) <= Len(Concat(docsIn) \o tailIn)

StrictlyIncreasing(s) == \A i, j \in 1..Len(s) : i < j => s[i] < s[j]

(***************************************************************************)
(* C15: pop_all() hands off ownership.  The call of pop_all() gives the    *)
(* returned stack the actions of the original in their order and leaves    *)
(* the original empty.  From then on the returned stack holds only actions *)
(* registered before the call, in registration order, the original only    *)
(* actions registered after it, no action is on both, an unwind of the     *)
(* original calls none of the actions handed over and an unwind of the     *)
(* returned stack none of the others, and no action is called twice.       *)
(***************************************************************************)
C15_PopAllHandsOff ==
    /\ [](/\ \A i \in 1..Len(registry) : called[i] <= 1
          /\ has_new =>
                /\ \A i \in Range(new_callbacks) : i <= handed
                /\ \A i \in Range(exit_callbacks) : i > handed
                /\ StrictlyIncreasing(new_callbacks)
                /\ StrictlyIncreasing(exit_callbacks))
    /\ [][(~has_new /\ has_new') =>
              /\ new_callbacks' = exit_callbacks
              /\ exit_callbacks' = <<>>
              /\ handed' = Len(registry)]_vars
    /\ [][\A i \in 1..Len(registry) :
              (has_new /\ called'[i] > called[i]) =>
                  unwinding' = (IF i <= handed THEN "new" ELSE "self")]_vars

\* a stack handed over with one action, given another afterwards, and both
\* stacks unwound
C15_Witness ==
    /\ has_new
    /\ handed = 1
    /\ Len(registry) = 2
    /\ unwinds = 2
    /\ Done
    /\ exit_callbacks = <<>>
    /\ new_callbacks = <<>>
    /\ \A i \in 1..Len(registry) : called[i] = 1

\* the call of ready() inside the operation of task t did not fail
ReadyHeld(t) == tret[t] # Raised("RuntimeError", None)

(***************************************************************************)
(* C12: drain on scope exit.  When the scope of a StreamableResponse has   *)
(* been left, by __aexit__ or by the end of complete(), the transport      *)
(* response has been released and no unread byte is left on the            *)
(* transport.                                                              *)
(***************************************************************************)
C12_DrainOnScopeExit ==
    \A t \in Tasks :
        (tpc[t] = "done" /\ top[t] \in {"aexit", "complete"} /\ ReadyHeld(t))
            => /\ released >= 1
               /\ wire = <<>>

(***************************************************************************)
(* C13: complete() on a finite stream.  When complete() has ended it has   *)
(* returned without raising, it had entered the response scope and has     *)
(* released the transport response, and the stream has been read to its    *)
(* end.                                                                    *)
(***************************************************************************)
C13_CompleteReturns ==
    \A t \in Tasks :
        (tpc[t] = "done" /\ top[t] = "complete" /\ ReadyHeld(t))
            => /\ tret[t] = None
               /\ entered >= 1
               /\ released >= 1
               /\ wire = <<>>

(***************************************************************************)
(* C18: the state of a StreamableResponse goes one way.  response and      *)
(* stream are both unset or both set; ready() constructs at most one       *)
(* stream; and once they are set no call of ready(), get_response(),       *)
(* get_stream(), __anext__, __aenter__, __aexit__ or complete(), however   *)
(* interleaved, replaces or unsets either.                                 *)
(***************************************************************************)
C18_ReadyOneWay ==
    /\ [](/\ (response = None) <=> (stream = None)
          /\ built <= 1
          /\ response # None =>
                /\ response = TheResponse
                /\ stream = [t |-> "JsonStream", id |-> 1]
                /\ built = 1)
    /\ [][response # None =>
              /\ response' = response
              /\ stream' = stream
              /\ built' = built]_vars

\* two tasks have awaited the pending response at once and both have gone
\* on, one through a scope exit and one through an iteration step
C18_Witness ==
    /\ pending_kind = "future"
    /\ awaits = 2
    /\ built = 1
    /\ response = TheResponse
    /\ \A t \in Tasks : tpc[t] = "done" /\ calls[t] = 1
    /\ \E t \in Tasks : top[t] = "aexit"
    /\ \E t \in Tasks : top[t] = "anext"


(***************************************************************************)
(* C21: a call for the next chunk never hangs.  Every call of              *)
(* ChunkedBytesStream.__anext__ comes to an end, also when the transport's *)
(* end is reached before a read has reported chunk_complete: no call reads *)
(* the transport again after a read at its end has returned nothing; and   *)
(* once a call has signalled the end of the stream, every later call       *)
(* signals it again.                                                       *)
(***************************************************************************)
C21_NextChunkNeverHangs ==
    \A c \in Consumers :
        /\ eof_reads[c] <= 1
        /\ \A i, j \in 1..Len(out[c]) :
               i < j /\ out[c][i] = StopAsyncIteration
                   => out[c][j] = StopAsyncIteration


(***************************************************************************)
(* C22: text decoding does not depend on where the bytes are cut into      *)
(* chunks.  Once the transport has delivered all its bytes, the text       *)
(* chunks ChunkedStream.__anext__ has returned, put end to end, are the    *)
(* decoding of the whole byte sequence, also when a chunk ended inside a   *)
(* character of several bytes.                                             *)
(***************************************************************************)
C22_DecodingChunkIndependent ==
    (wire = <<>> /\ \A c \in Consumers : pc[c] # "reading")
        => received = BytesDecode(Concat(docsIn) \o tailIn)


\* tail is what is left of text after some prefix of it
IsSuffix(tail, text) ==
    /\ Len(tail) <= Len(text)
    /\ tail = From(text, Len(text) - Len(tail) + 1)

(***************************************************************************)
(* C23: the accumulation buffer.  Between iteration steps the buffer is    *)
(* the decoded text received so far without the prefix of it that the      *)
(* frames yielded so far have consumed: it is what is left of the received *)
(* text after that prefix.                                                 *)
(***************************************************************************)
C23_BufferIsReceivedMinusYielded ==
    (\A c \in Consumers : pc[c] \in {"idle", "finished"})
        => IsSuffix(buffer, received)


(***************************************************************************)
(* C24: the tail is attempted exactly once.  The decoder is called at most *)
(* once; the step that calls it is one in which the transport has just     *)
(* signalled its end, the splitter finds no frame in the buffer and the    *)
(* buffer is not empty; the decoder gets the whole buffer, and the buffer  *)
(* is empty from then on; and every step that ends after the decoder was   *)
(* called reports exhaustion and does not call the decoder again.          *)
(***************************************************************************)
C24_TailAttemptedOnce ==
    /\ [](Len(decoder_calls) <= 1)
    /\ [][ /\ decoder_calls' # decoder_calls =>
                /\ wire = <<>>
                /\ \E c \in Consumers : pc[c] = "closing" /\ end_of_stream'[c]
                /\ Splitter(buffer) = None
                /\ buffer # <<>>
                /\ decoder_calls' = Append(decoder_calls, buffer)
                /\ buffer' = <<>>
           /\ decoder_calls # <<>> =>
                /\ decoder_calls' = decoder_calls
                /\ buffer' = <<>>
                /\ \A c \in Consumers :
                       out'[c] # out[c] => Last(out'[c]) = StopAsyncIteration
         ]_vars

\* the tail was decoded, and two later calls have come to their end
C24_Witness ==
    /\ decoder_calls = <<TailUnclosed>>
    /\ \E i \in 1..Len(out["c1"]) :
        /\ out["c1"][i] = Raised("ChunkedStreamingError", "JSONDecodeError")
        /\ Len(out["c1"]) >= i + 2
    /\ pc["c1"] = "finished"


\* text that starts, after whitespace, with a character no document starts
\* with: whatever is appended to it, no prefix of it is a complete document
Invalid(text) ==
    LET s == StripLeft(text)
    IN  s # <<>> /\ Head(s) \notin ({"\"", "{"} \cup Digits)

(***************************************************************************)
(* C25: invalid text is told from incomplete text.  With JSON framing, a   *)
(* step that finds the buffered text invalid fails (with a                 *)
(* ChunkedStreamingError that carries the parse failure): no step waits    *)
(* for a further chunk of the transport while the buffered text is         *)
(* invalid.                                                                *)
(***************************************************************************)
C25_InvalidNotBuffered ==
    \A c \in Consumers : pc[c] = "reading" => ~Invalid(buffer)


(***************************************************************************)
(* C26: the framing policy is the one selected at construction.  Once      *)
(* ready() has set the response, the stream is an instance of the          *)
(* stream_class the constructor was given (JsonStream when none was        *)
(* given), made for the resolved response.                                 *)
(***************************************************************************)
C26_StreamOfSelectedClass ==
    response # None =>
        /\ response = TheResponse
        /\ stream # None
        /\ stream.t = stream_class


(***************************************************************************)
(* C27: no acquired resource escapes the exit stack.  Whatever the order   *)
(* in which the steps of enter_async_context calls and of an unwind of the *)
(* same stack are taken, once an unwind has been begun and the unwind and  *)
(* every enter_async_context call have come to their end, every resource   *)
(* whose acquisition succeeded has been released exactly once, also one    *)
(* whose acquisition was still suspended when the unwind was begun.        *)
(***************************************************************************)
C27_NoResourceEscapes ==
    (unwinds > 0 /\ upc \in {"returned", "raised"} /\ entering = <<>>)
        => \A i \in 1..Len(registry) :
               registry[i].how = "enter_async_context" => ran[i] = 1
=============================================================================
